---- MODULE Spec2Model ----
(***************************************************************************)
(* A model of ivy (db.go): a file-based document store.  Each table is a  *)
(* directory of <id>.json files, guarded by one sync.RWMutex per table,    *)
(* with an in-memory tag index per table that initTagsIndex rebuilds after *)
(* every Create, Update and Delete.                                        *)
(***************************************************************************)
EXTENDS Integers, Sequences, FiniteSets, TLC

VARIABLES
    files,       \* the disk: table directory -> (file id -> contents of <id>.json)
    rwLocks,     \* db.rwLocks: table name -> address of its sync.RWMutex
    mutexes,     \* the heap of sync.RWMutex values, by address
    tagIndexes,  \* db.tagIndexes: table name -> (tag -> list of file ids)
    pc,          \* goroutine -> where it stands in the method it is running
    call,        \* goroutine -> the method call it is running
    returned,    \* watched goroutine -> the call it has just finished, with its results
    acked,       \* watched table -> (file id -> its last mutation, once that returned nil)
    crashed      \* the runtime has thrown a fatal error (unrecoverable)

vars == <<files, rwLocks, mutexes, tagIndexes, pc, call, returned, acked, crashed>>

(***************************************************************************)
(* Bounds of the model.                                                    *)
(***************************************************************************)
\* The largest file id a caller lets a table reach: it creates no record
\* beyond it.
MaxId == 3
\* The same, for each of several concurrent callers.
SmallMaxId == 1

(***************************************************************************)
(* Strings that the code parses or formats are sequences of characters.    *)
(***************************************************************************)
DigitChars == <<"0", "1", "2", "3", "4", "5", "6", "7", "8", "9">>

IsDigit(c) == \E i \in 1..10 : DigitChars[i] = c

DigitVal(c) == (CHOOSE i \in 1..10 : DigitChars[i] = c) - 1

\* The value of a non-empty sequence of decimal digits.
RECURSIVE DigitsVal(_)
DigitsVal(s) ==
    IF Len(s) = 0 THEN 0
    ELSE 10 * DigitsVal(SubSeq(s, 1, Len(s) - 1)) + DigitVal(s[Len(s)])

\* strconv.Atoi: an optional sign, then one or more decimal digits.
Atoi(s) ==
    LET signed == Len(s) > 0 /\ s[1] \in {"+", "-"}
        digits == IF signed THEN Tail(s) ELSE s
        ok     == Len(digits) > 0 /\ \A i \in 1..Len(digits) : IsDigit(digits[i])
    IN  IF ~ok THEN [err |-> "invalid syntax", val |-> 0]
        ELSE [err |-> "nil",
              val |-> IF signed /\ s[1] = "-" THEN 0 - DigitsVal(digits)
                      ELSE DigitsVal(digits)]

\* strconv.Itoa: the canonical decimal form.
RECURSIVE Itoa(_)
Itoa(n) ==
    IF n < 0 THEN <<"-">> \o Itoa(0 - n)
    ELSE IF n < 10 THEN <<DigitChars[n + 1]>>
    ELSE Itoa(n \div 10) \o <<DigitChars[(n % 10) + 1]>>

\* The byte value of a character of a file name.
Byte(c) ==
    CASE c = "+" -> 43
      [] c = "-" -> 45
      [] c = "." -> 46
      [] IsDigit(c) -> 48 + DigitVal(c)
      [] OTHER -> 120

\* Byte-wise lexicographic order of strings.
RECURSIVE StrLess(_, _)
StrLess(s, t) ==
    IF Len(t) = 0 THEN FALSE
    ELSE IF Len(s) = 0 THEN TRUE
    ELSE IF Byte(s[1]) < Byte(t[1]) THEN TRUE
    ELSE IF Byte(s[1]) > Byte(t[1]) THEN FALSE
    ELSE StrLess(Tail(s), Tail(t))

\* ioutil.ReadDir lists a directory sorted by file name; the names are <id>.json.
FileNameLess(a, b) == StrLess(a \o <<".">>, b \o <<".">>)

RECURSIVE SortedByFileName(_)
SortedByFileName(S) ==
    IF S = {} THEN <<>>
    ELSE LET first == CHOOSE a \in S : \A b \in S \ {a} : FileNameLess(a, b)
         IN  <<first>> \o SortedByFileName(S \ {first})

Range(s) == {s[i] : i \in 1..Len(s)}

(***************************************************************************)
(* Documents.  A caller's record is a Go value; a file holds its JSON      *)
(* encoding; the scans decode a file into a map[string]interface{}.        *)
(*   Foo  (tests/db_test.go): FileId `json:"-"`, Bar `json:"bar"`,         *)
(*        Tags []string `json:"tags"`                                      *)
(*   Memo: a caller's struct with FileId and Bar only (no tags field)      *)
(*   Bare: a caller's struct with FileId only                              *)
(*   Text: a caller's named string type; Bar holds the string              *)
(***************************************************************************)
NoId == <<>>

GoRec(struct, bar, tags, tagsNil) ==
    [struct |-> struct, FileId |-> NoId, Bar |-> bar, Tags |-> tags, TagsNil |-> tagsNil]

\* The zero value of a caller's type, as TestCreate passes to Find.
ZeroRec(struct) == GoRec(struct, "", <<>>, struct = "Foo")

\* JSON values.
JStr(s)  == [k |-> "string", s |-> s,  a |-> <<>>]
JArr(a)  == [k |-> "array",  s |-> "", a |-> a]
JNull    == [k |-> "null",   s |-> "", a |-> <<>>]

EmptyMap == [key \in {} |-> JNull]

\* JSON texts: an object of key/value pairs, or a bare string.
JObject(o) == [k |-> "object", s |-> "", o |-> o]
JText(s)   == [k |-> "string", s |-> s,  o |-> EmptyMap]

\* json.Marshal of a caller's record: FileId is never encoded, a nil slice
\* encodes as null.
Marshal(rec) ==
    CASE rec.struct = "Foo" ->
            JObject([key \in {"bar", "tags"} |->
                       IF key = "bar" THEN JStr(rec.Bar)
                       ELSE IF rec.TagsNil THEN JNull ELSE JArr(rec.Tags)])
      [] rec.struct = "Memo" ->
            JObject([key \in {"bar"} |-> JStr(rec.Bar)])
      [] rec.struct = "Bare" -> JObject(EmptyMap)
      [] OTHER -> JText(rec.Bar)

\* json.Unmarshal(data, rec) into a caller's record: fields the text names are
\* overwritten, the others keep their value; null empties a slice and leaves a
\* string alone; a value of the wrong kind is an UnmarshalTypeError.
UnmarshalRec(data, rec) ==
    IF rec.struct = "Text"
    THEN IF data.k = "string"
         THEN [err |-> "nil", rec |-> [rec EXCEPT !.Bar = data.s]]
         ELSE [err |-> "json: cannot unmarshal", rec |-> rec]
    ELSE IF data.k # "object"
    THEN [err |-> "json: cannot unmarshal", rec |-> rec]
    ELSE LET o       == data.o
             hasBar  == rec.struct # "Bare" /\ "bar" \in DOMAIN o
             hasTags == rec.struct = "Foo" /\ "tags" \in DOMAIN o
             barBad  == hasBar /\ o["bar"].k = "array"
             tagsBad == hasTags /\ o["tags"].k = "string"
             r1      == IF hasBar /\ o["bar"].k = "string"
                        THEN [rec EXCEPT !.Bar = o["bar"].s] ELSE rec
             r2      == IF hasTags /\ o["tags"].k = "array"
                        THEN [r1 EXCEPT !.Tags = o["tags"].a, !.TagsNil = FALSE]
                        ELSE IF hasTags /\ o["tags"].k = "null"
                        THEN [r1 EXCEPT !.Tags = <<>>, !.TagsNil = TRUE]
                        ELSE r1
         IN  [err |-> IF barBad \/ tagsBad THEN "json: cannot unmarshal" ELSE "nil",
              rec |-> r2]

\* A JSON value decoded into an interface{}: its dynamic Go type and value.
Decode(v) ==
    CASE v.k = "string" -> [t |-> "string", s |-> v.s, a |-> <<>>]
      [] v.k = "array"  -> [t |-> "[]interface {}", s |-> "", a |-> v.a]
      [] OTHER          -> [t |-> "nil", s |-> "", a |-> <<>>]

\* json.Unmarshal(data, &rec) with rec a map[string]interface{}: a nil map is
\* allocated, a non-nil map is reused and keeps the entries the text does not name.
UnmarshalMap(data, m) ==
    IF data.k # "object"
    THEN [err |-> "json: cannot unmarshal", m |-> m]
    ELSE [err |-> "nil",
          m   |-> [key \in DOMAIN m \cup DOMAIN data.o |->
                     IF key \in DOMAIN data.o THEN Decode(data.o[key]) ELSE m[key]]]

(***************************************************************************)
(* Private DB methods.                                                     *)
(***************************************************************************)
\* fileIdsInDataDir: the stems of the .json files of the table's directory, in
\* ReadDir's order; a directory that does not exist lists nothing.
fileIdsInDataDir(tblName) ==
    IF tblName \in DOMAIN files THEN SortedByFileName(DOMAIN files[tblName]) ELSE <<>>

RECURSIVE SortInts(_)
SortInts(S) ==
    IF S = {} THEN <<>>
    ELSE LET least == CHOOSE n \in S : \A m \in S : n <= m
         IN  <<least>> \o SortInts(S \ {least})

\* nextAvailableFileId counting the files instead of taking the largest id.
nextAvailableFileIdByCount(tblName) ==
    LET ids == fileIdsInDataDir(tblName)
        bad == {i \in 1..Len(ids) : Atoi(ids[i]).err # "nil"}
    IN  IF bad # {} THEN [err |-> "invalid syntax", fileId |-> NoId]
        ELSE [err |-> "nil", fileId |-> Itoa(Len(ids) + 1)]

\* nextAvailableFileId without the increment.
nextAvailableFileIdLast(tblName) ==
    LET ids     == fileIdsInDataDir(tblName)
        bad     == {i \in 1..Len(ids) : Atoi(ids[i]).err # "nil"}
        fileIds == SortInts({Atoi(ids[i]).val : i \in 1..Len(ids)})
    IN  IF bad # {} THEN [err |-> "invalid syntax", fileId |-> NoId]
        ELSE IF Len(fileIds) = 0 THEN [err |-> "nil", fileId |-> <<"1">>]
        ELSE [err |-> "nil", fileId |-> Itoa(fileIds[Len(fileIds)])]

\* nextAvailableFileId: "1" for an empty table, else the largest id plus one.
nextAvailableFileId(tblName) ==
    LET ids     == fileIdsInDataDir(tblName)
        bad     == {i \in 1..Len(ids) : Atoi(ids[i]).err # "nil"}
        fileIds == SortInts({Atoi(ids[i]).val : i \in 1..Len(ids)})
    IN  IF bad # {} THEN [err |-> "invalid syntax", fileId |-> NoId]
        ELSE IF Len(fileIds) = 0 THEN [err |-> "nil", fileId |-> <<"1">>]
        ELSE [err |-> "nil", fileId |-> Itoa(fileIds[Len(fileIds)] + 1)]

\* stringInSlice
stringInSlice(s, list) == \E i \in 1..Len(list) : list[i] = s

\* The inner loop of initTagsIndex: file the id under each of the record's tags.
RECURSIVE indexTags(_, _, _)
indexTags(tagIndex, fileId, tags) ==
    IF Len(tags) = 0 THEN tagIndex
    ELSE LET tag  == Head(tags)
             next == IF tag \in DOMAIN tagIndex
                     THEN IF ~stringInSlice(fileId, tagIndex[tag])
                          THEN [tagIndex EXCEPT ![tag] = Append(@, fileId)]
                          ELSE tagIndex
                     ELSE [x \in DOMAIN tagIndex \cup {tag} |->
                             IF x = tag THEN <<fileId>> ELSE tagIndex[x]]
         IN  indexTags(next, fileId, Tail(tags))

\* The scan loop of initTagsIndex over the remaining file ids: rec is the one
\* map declared before the loop, tagIndex the index built so far.
RECURSIVE scanFiles(_, _, _, _)
scanFiles(tblName, fileIds, rec, tagIndex) ==
    IF Len(fileIds) = 0 THEN [err |-> "nil", tagIndex |-> tagIndex]
    ELSE LET fileId  == Head(fileIds)
             decoded == UnmarshalMap(files[tblName][fileId], rec)
         IN  IF decoded.err # "nil"
             THEN [err |-> decoded.err, tagIndex |-> tagIndex]
             ELSE IF ~("tags" \in DOMAIN decoded.m
                       /\ decoded.m["tags"].t = "[]interface {}")
             THEN [err |-> "panic", tagIndex |-> tagIndex]
             ELSE scanFiles(tblName, Tail(fileIds), decoded.m,
                            indexTags(tagIndex, fileId, decoded.m["tags"].a))

\* initTagsIndex, first loop: for every key k of db.tagIndexes, delete k from
\* the table's own index.
clearTagsIndex(tblName, indexes) ==
    IF tblName \in DOMAIN indexes
    THEN [indexes EXCEPT ![tblName] =
            [tag \in DOMAIN @ \ DOMAIN indexes |-> @[tag]]]
    ELSE indexes

\* initTagsIndex, the rest: scan the files and store the new index.
storeTagsIndex(tblName, indexes) ==
    LET scan == scanFiles(tblName, fileIdsInDataDir(tblName), EmptyMap, EmptyMap)
    IN  IF scan.err # "nil" THEN [err |-> scan.err, indexes |-> indexes]
        ELSE [err |-> "nil",
              indexes |-> [t \in DOMAIN indexes \cup {tblName} |->
                             IF t = tblName THEN scan.tagIndex ELSE indexes[t]]]

initTagsIndex(tblName, indexes) == storeTagsIndex(tblName, clearTagsIndex(tblName, indexes))

(***************************************************************************)
(* sync.RWMutex.  w is the goroutine that holds the writer mutex rw.w (0:  *)
(* none): from the moment it holds it new readers queue up, and it enters   *)
(* once the readers that were inside have left.  readers hold the read     *)
(* lock; waiting readers called RLock behind a writer.                     *)
(***************************************************************************)
NewRWMutex == [w |-> 0, readers |-> {}, waiting |-> {}]

\* RLock: enter at once unless a writer holds or awaits the lock.
RLock(m, self) ==
    IF m.w = 0 THEN [m EXCEPT !.readers = @ \cup {self}]
    ELSE [m EXCEPT !.waiting = @ \cup {self}]

\* RUnlock
RUnlock(m, self) == [m EXCEPT !.readers = @ \ {self}]

\* Unlock: the readers that queued up behind the writer all enter.
Unlock(m) == [w |-> 0, readers |-> m.waiting, waiting |-> {}]

\* Where a goroutine stands after calling RLock, and after calling Lock.
AfterRLock(m) == IF m.w = 0 THEN "locked" ELSE "RLock"
AfterLock(m) ==
    IF m.w # 0 THEN "Lock" ELSE IF m.readers # {} THEN "LockWait" ELSE "locked"

(***************************************************************************)
(* The callers' goroutines and what they pass.                             *)
(***************************************************************************)
\* A search value of FindFirstIdForField / FindAllIdsForField: an interface{}
\* with its dynamic type.
StringValue(x) == [t |-> "string", s |-> x, n |-> 0]
IntValue(t, n) == [t |-> t, s |-> "", n |-> n]

\* A call: the method, its arguments and its results: rec is the record passed
\* in and, after Find, as Find left it; fileId is the id passed in or the id
\* that Create or FindFirstIdForField returns; rest is, in Close, the tables
\* the range over db.rwLocks has yet to yield.
NewCall(op, tblName) ==
    [op |-> op, tblName |-> tblName, fileId |-> NoId, rec |-> ZeroRec("Foo"),
     searchTags |-> <<>>, searchField |-> "", searchValue |-> StringValue(""),
     ids |-> <<>>, err |-> "nil", rest |-> {}]

Mutations == {"Create", "Update", "Delete"}

\* A method that takes the read lock where it should take the write lock.
locksForWritingButDelete(op) == op \in {"Create", "Update"}

\* Close with RLock/RUnlock in its loop.
locksForWritingButClose(op) == op \in Mutations

\* Create, Update and Delete call Lock and defer Unlock, Close calls Lock and
\* Unlock on each table in turn; the other methods call RLock and defer RUnlock.
locksForWriting(op) == op \in Mutations \cup {"Close"}

\* The method returns: its deferred RUnlock or Unlock runs, then the caller has
\* the results.
Results(self, c) ==
    IF self \in DOMAIN returned THEN [returned EXCEPT ![self] = c] ELSE returned

\* A method that unlocks before its last return only, not on its error returns.
ReturnedLockedOnError(self, fileId, rec, ids, err) ==
    /\ returned' = Results(self, [call[self] EXCEPT !.fileId = fileId, !.rec = rec,
                                                    !.ids = ids, !.err = err])
    /\ call' = [call EXCEPT ![self] = NewCall("none", "")]
    /\ LET a     == rwLocks[call[self].tblName]
           write == locksForWriting(call[self].op)
           woken == IF write /\ err = "nil" THEN mutexes[a].waiting ELSE {}
       IN  /\ mutexes' = [mutexes EXCEPT ![a] =
                            IF err # "nil" THEN @
                            ELSE IF write THEN Unlock(@) ELSE RUnlock(@, self)]
           /\ pc' = [g \in DOMAIN pc |->
                       IF g = self THEN "idle"
                       ELSE IF g \in woken THEN "locked" ELSE pc[g]]

Returned(self, fileId, rec, ids, err) ==
    /\ returned' = Results(self, [call[self] EXCEPT !.fileId = fileId, !.rec = rec,
                                                    !.ids = ids, !.err = err])
    /\ call' = [call EXCEPT ![self] = NewCall("none", "")]
    /\ LET a     == rwLocks[call[self].tblName]
           write == locksForWriting(call[self].op)
           woken == IF write THEN mutexes[a].waiting ELSE {}
       IN  /\ mutexes' = [mutexes EXCEPT ![a] =
                            IF write THEN Unlock(@) ELSE RUnlock(@, self)]
           /\ pc' = [g \in DOMAIN pc |->
                       IF g = self THEN "idle"
                       ELSE IF g \in woken THEN "locked" ELSE pc[g]]

\* db.tagIndexes is one Go map shared by all tables.  A goroutine about to run
\* the named part of a method reads or writes that map:
reachesIndex(g) ==
    CASE call[g].op = "Create" -> nextAvailableFileId(call[g].tblName).err = "nil"
      [] call[g].op = "Update" -> Atoi(call[g].fileId).err = "nil"
      [] call[g].op = "Delete" -> call[g].fileId \in DOMAIN files[call[g].tblName]
      [] OTHER -> FALSE

MapAccess(g) ==
    CASE pc[g] = "indexing" -> "write"
      [] pc[g] = "locked" /\ reachesIndex(g) -> "read"
      [] pc[g] = "locked" /\ call[g].op = "FindAllIdsForTags"
           /\ Len(call[g].searchTags) # 0 -> "read"
      [] OTHER -> "none"

\* Two goroutines holding the locks of different tables are not ordered: an
\* access to the shared map races with another goroutine's write.  The runtime
\* may let a racing access through, lose it, or throw a fatal error.
MapOutcomes(self) ==
    IF \E g \in DOMAIN pc \ {self} :
           /\ MapAccess(g) # "none"
           /\ "write" \in {MapAccess(g), MapAccess(self)}
    THEN {"ok", "torn", "fatal"}
    ELSE {"ok"}

(***************************************************************************)
(* Public DB methods, read side.  Each method is a call step, which takes  *)
(* the table's lock or queues for it, and a step that runs its body under   *)
(* the lock and returns.                                                   *)
(***************************************************************************)
\* A call on a table that has no directory finds no mutex in db.rwLocks and
\* dereferences nil.
Enter(self, c) ==
    /\ ~crashed
    /\ pc[self] = "idle"
    /\ IF c.tblName \in DOMAIN rwLocks
       THEN LET a     == rwLocks[c.tblName]
                write == locksForWriting(c.op)
            IN  /\ call' = [call EXCEPT ![self] = c]
                /\ mutexes' = [mutexes EXCEPT ![a] =
                                 IF write
                                 THEN IF @.w = 0 THEN [@ EXCEPT !.w = self] ELSE @
                                 ELSE RLock(@, self)]
                /\ pc' = [pc EXCEPT ![self] =
                            IF write THEN AfterLock(mutexes[a])
                            ELSE AfterRLock(mutexes[a])]
                /\ returned' = Results(self, NewCall("none", ""))
       ELSE /\ returned' = Results(self, [c EXCEPT !.err = "panic"])
            /\ UNCHANGED <<mutexes, pc, call>>
    /\ UNCHANGED <<files, rwLocks, tagIndexes, acked, crashed>>

\* Lock, for a writer that had to wait: take rw.w once it is free, enter once
\* the readers have left.
Lock(self) ==
    /\ ~crashed
    /\ pc[self] \in {"Lock", "LockWait"}
    /\ LET a == rwLocks[call[self].tblName]
       IN  IF pc[self] = "Lock"
           THEN /\ mutexes[a].w = 0
                /\ mutexes' = [mutexes EXCEPT ![a].w = self]
                /\ pc' = [pc EXCEPT ![self] = AfterLock(mutexes[a])]
           ELSE /\ mutexes[a].readers = {}
                /\ pc' = [pc EXCEPT ![self] = "locked"]
                /\ UNCHANGED mutexes
    /\ UNCHANGED <<files, rwLocks, tagIndexes, call, returned, acked, crashed>>

Running(self, op) == ~crashed /\ pc[self] = "locked" /\ call[self].op = op

\* loadRec without its json.Unmarshal.
loadRecUndecoded(tblName, rec, fileId) ==
    IF fileId \notin DOMAIN files[tblName]
    THEN [err |-> "no such file", rec |-> rec]
    ELSE [err |-> "nil", rec |-> rec]

\* loadRec
loadRec(tblName, rec, fileId) ==
    IF fileId \notin DOMAIN files[tblName]
    THEN [err |-> "no such file", rec |-> rec]
    ELSE UnmarshalRec(files[tblName][fileId], rec)

\* The caller's AfterFind (db_test.go): the record takes the id it was found by.
AfterFind(rec, fileId) == [rec EXCEPT !.FileId = fileId]

Find(self, tblName, rec, fileId) ==
    Enter(self, [NewCall("Find", tblName) EXCEPT !.rec = rec, !.fileId = fileId])

FindReturn(self) ==
    /\ Running(self, "Find")
    /\ LET c      == call[self]
           loaded == loadRec(c.tblName, c.rec, c.fileId)
       IN  IF loaded.err # "nil"
           THEN Returned(self, c.fileId, loaded.rec, <<>>, loaded.err)
           ELSE Returned(self, c.fileId, AfterFind(loaded.rec, c.fileId), <<>>, "nil")
    /\ UNCHANGED <<files, rwLocks, tagIndexes, acked, crashed>>

FindAllIds(self, tblName) ==
    Enter(self, NewCall("FindAllIds", tblName))

FindAllIdsReturn(self) ==
    /\ Running(self, "FindAllIds")
    /\ Returned(self, NoId, call[self].rec, fileIdsInDataDir(call[self].tblName), "nil")
    /\ UNCHANGED <<files, rwLocks, tagIndexes, acked, crashed>>

\* The two nested loops of FindAllIdsForTags: how often each file id occurs in
\* the index entries of the search tags.
RECURSIVE countIds(_, _)
countIds(possible, fileIds) ==
    IF Len(fileIds) = 0 THEN possible
    ELSE LET fileId == Head(fileIds)
             next   == IF fileId \in DOMAIN possible
                       THEN [possible EXCEPT ![fileId] = @ + 1]
                       ELSE [x \in DOMAIN possible \cup {fileId} |->
                               IF x = fileId THEN 1 ELSE possible[x]]
         IN  countIds(next, Tail(fileIds))

RECURSIVE countTags(_, _, _)
countTags(possible, tagIndex, searchTags) ==
    IF Len(searchTags) = 0 THEN possible
    ELSE LET tag == Head(searchTags)
         IN  countTags(IF tag \in DOMAIN tagIndex
                       THEN countIds(possible, tagIndex[tag]) ELSE possible,
                       tagIndex, Tail(searchTags))

\* matchingIds comparing the count with the number of distinct search tags.
matchingIdsDistinct(tagIndex, searchTags) ==
    IF Len(searchTags) # 0
    THEN LET possible == countTags([x \in {} |-> 0], tagIndex, searchTags)
         IN  {fileId \in DOMAIN possible :
                 possible[fileId] = Cardinality(Range(searchTags))}
    ELSE {}

\* The ids FindAllIdsForTags returns, from the table's index as it reads it.
matchingIds(tagIndex, searchTags) ==
    IF Len(searchTags) # 0
    THEN LET possible == countTags([x \in {} |-> 0], tagIndex, searchTags)
         IN  {fileId \in DOMAIN possible : possible[fileId] = Len(searchTags)}
    ELSE {}

\* The orders in which a range over a Go map may yield the ids.
Orders(S) ==
    {s \in [1..Cardinality(S) -> S] : \A i, j \in DOMAIN s : s[i] = s[j] => i = j}

FindAllIdsForTags(self, tblName, searchTags) ==
    Enter(self, [NewCall("FindAllIdsForTags", tblName) EXCEPT !.searchTags = searchTags])

FindAllIdsForTagsReturn(self) ==
    /\ Running(self, "FindAllIdsForTags")
    /\ \E outcome \in MapOutcomes(self) :
         LET c        == call[self]
             tagIndex == IF c.tblName \in DOMAIN tagIndexes /\ outcome = "ok"
                         THEN tagIndexes[c.tblName] ELSE EmptyMap
         IN  IF outcome = "fatal"
             THEN crashed' = TRUE /\ UNCHANGED <<call, returned, mutexes, pc>>
             ELSE /\ \E ids \in Orders(matchingIds(tagIndex, c.searchTags)) :
                        Returned(self, NoId, c.rec, ids, "nil")
                  /\ UNCHANGED crashed
    /\ UNCHANGED <<files, rwLocks, tagIndexes, acked>>

\* The scan loop of FindFirstIdForField (first) and FindAllIdsForField: rec is
\* the one map declared before the loop; a type assertion on a value of another
\* dynamic type panics, and no JSON value decodes to a Go int.
RECURSIVE scanForField(_, _, _, _, _, _, _)
scanForField(tblName, fileIds, rec, searchField, searchValue, first, ids) ==
    IF Len(fileIds) = 0 THEN [err |-> "nil", ids |-> ids]
    ELSE LET fileId  == Head(fileIds)
             decoded == UnmarshalMap(files[tblName][fileId], rec)
             cases   == IF first THEN {"int", "int32", "int64", "string"}
                        ELSE {"int", "string"}
             isStr   == searchField \in DOMAIN decoded.m
                        /\ decoded.m[searchField].t = "string"
             match   == searchValue.t = "string" /\ isStr
                        /\ decoded.m[searchField].s = searchValue.s
         IN  IF decoded.err # "nil" THEN [err |-> decoded.err, ids |-> <<>>]
             ELSE IF searchValue.t \in cases /\ ~(searchValue.t = "string" /\ isStr)
             THEN [err |-> "panic", ids |-> <<>>]
             ELSE IF match /\ first THEN [err |-> "nil", ids |-> <<fileId>>]
             ELSE scanForField(tblName, Tail(fileIds), decoded.m, searchField,
                               searchValue, first,
                               IF match THEN Append(ids, fileId) ELSE ids)

FindFirstIdForField(self, tblName, searchField, searchValue) ==
    Enter(self, [NewCall("FindFirstIdForField", tblName) EXCEPT
                    !.searchField = searchField, !.searchValue = searchValue])

FindFirstIdForFieldReturn(self) ==
    /\ Running(self, "FindFirstIdForField")
    /\ LET c    == call[self]
           scan == scanForField(c.tblName, fileIdsInDataDir(c.tblName), EmptyMap,
                                c.searchField, c.searchValue, TRUE, <<>>)
       IN  Returned(self, IF Len(scan.ids) = 0 THEN NoId ELSE scan.ids[1],
                    c.rec, <<>>, scan.err)
    /\ UNCHANGED <<files, rwLocks, tagIndexes, acked, crashed>>

FindAllIdsForField(self, tblName, searchField, searchValue) ==
    Enter(self, [NewCall("FindAllIdsForField", tblName) EXCEPT
                    !.searchField = searchField, !.searchValue = searchValue])

FindAllIdsForFieldReturn(self) ==
    /\ Running(self, "FindAllIdsForField")
    /\ LET c    == call[self]
           scan == scanForField(c.tblName, fileIdsInDataDir(c.tblName), EmptyMap,
                                c.searchField, c.searchValue, FALSE, <<>>)
       IN  Returned(self, NoId, c.rec, scan.ids, scan.err)
    /\ UNCHANGED <<files, rwLocks, tagIndexes, acked, crashed>>

(***************************************************************************)
(* Public DB methods, write side.  Each is a call step, a step that changes *)
(* the file and runs the first loop of initTagsIndex, and a step that runs  *)
(* the rest of initTagsIndex and returns.                                   *)
(***************************************************************************)
\* WriteFile that rewrites an existing file but creates none.
WriteFileNoCreate(tblName, fileId, data) ==
    [files EXCEPT ![tblName] = [x \in DOMAIN @ |-> IF x = fileId THEN data ELSE @[x]]]

\* ioutil.WriteFile / os.Remove on <tblName>/<fileId>.json.
WriteFile(tblName, fileId, data) ==
    [files EXCEPT ![tblName] =
        [x \in DOMAIN @ \cup {fileId} |-> IF x = fileId THEN data ELSE @[x]]]

\* Remove that leaves the file in place.
RemoveNothing(tblName, fileId) == files

Remove(tblName, fileId) ==
    [files EXCEPT ![tblName] = [x \in DOMAIN @ \ {fileId} |-> @[x]]]

\* What the callers have been told about a file id: nothing while a mutation of
\* it is under way, the mutation once it has returned nil.
Forget(tblName, fileId) ==
    IF tblName \notin DOMAIN acked THEN acked
    ELSE [acked EXCEPT ![tblName] = [x \in DOMAIN @ \ {fileId} |-> @[x]]]

Acknowledge(tblName, fileId, op, rec) ==
    IF tblName \notin DOMAIN acked THEN acked
    ELSE [acked EXCEPT ![tblName] =
            [x \in DOMAIN @ \cup {fileId} |->
                IF x = fileId THEN [op |-> op, rec |-> rec] ELSE @[x]]]

\* The file is changed; initTagsIndex starts: its first loop reads db.tagIndexes.
StartIndexing(self, outcome) ==
    IF outcome = "fatal"
    THEN crashed' = TRUE /\ UNCHANGED <<tagIndexes, pc>>
    ELSE /\ tagIndexes' = IF outcome = "ok"
                          THEN clearTagsIndex(call[self].tblName, tagIndexes)
                          ELSE tagIndexes
         /\ pc' = [pc EXCEPT ![self] = "indexing"]
         /\ UNCHANGED crashed

Create(self, tblName, rec) ==
    Enter(self, [NewCall("Create", tblName) EXCEPT !.rec = rec])

CreateWrite(self) ==
    /\ Running(self, "Create")
    /\ LET c    == call[self]
           next == nextAvailableFileId(c.tblName)
       IN  IF next.err # "nil"
           THEN /\ Returned(self, NoId, c.rec, <<>>, next.err)
                /\ UNCHANGED <<files, tagIndexes, acked, crashed>>
           ELSE /\ files' = WriteFile(c.tblName, next.fileId, Marshal(c.rec))
                /\ acked' = Forget(c.tblName, next.fileId)
                /\ call' = [call EXCEPT ![self].fileId = next.fileId]
                /\ \E outcome \in MapOutcomes(self) : StartIndexing(self, outcome)
                /\ UNCHANGED <<mutexes, returned>>
    /\ UNCHANGED rwLocks

Update(self, tblName, rec, fileId) ==
    Enter(self, [NewCall("Update", tblName) EXCEPT !.rec = rec, !.fileId = fileId])

\* Update writing the file before it checks the id.
UpdateWriteUnchecked(self) ==
    /\ Running(self, "Update")
    /\ LET c == call[self]
       IN  /\ files' = WriteFile(c.tblName, c.fileId, Marshal(c.rec))
           /\ IF Atoi(c.fileId).err # "nil"
              THEN /\ Returned(self, c.fileId, c.rec, <<>>, Atoi(c.fileId).err)
                   /\ UNCHANGED <<tagIndexes, acked, crashed>>
              ELSE /\ acked' = Forget(c.tblName, c.fileId)
                   /\ \E outcome \in MapOutcomes(self) : StartIndexing(self, outcome)
                   /\ UNCHANGED <<mutexes, call, returned>>
    /\ UNCHANGED rwLocks

UpdateWrite(self) ==
    /\ Running(self, "Update")
    /\ LET c == call[self]
       IN  IF Atoi(c.fileId).err # "nil"
           THEN /\ Returned(self, c.fileId, c.rec, <<>>, Atoi(c.fileId).err)
                /\ UNCHANGED <<files, tagIndexes, acked, crashed>>
           ELSE /\ files' = WriteFile(c.tblName, c.fileId, Marshal(c.rec))
                /\ acked' = Forget(c.tblName, c.fileId)
                /\ \E outcome \in MapOutcomes(self) : StartIndexing(self, outcome)
                /\ UNCHANGED <<mutexes, call, returned>>
    /\ UNCHANGED rwLocks

\* Delete checks the id before it takes the lock.
Delete(self, tblName, fileId) ==
    IF Atoi(fileId).err # "nil"
    THEN /\ ~crashed
         /\ pc[self] = "idle"
         /\ returned' = Results(self, [NewCall("Delete", tblName) EXCEPT
                                           !.fileId = fileId, !.err = Atoi(fileId).err])
         /\ UNCHANGED <<files, rwLocks, mutexes, tagIndexes, pc, call, acked, crashed>>
    ELSE Enter(self, [NewCall("Delete", tblName) EXCEPT !.fileId = fileId])

DeleteRemove(self) ==
    /\ Running(self, "Delete")
    /\ LET c == call[self]
       IN  IF c.fileId \notin DOMAIN files[c.tblName]
           THEN /\ Returned(self, c.fileId, c.rec, <<>>, "no such file")
                /\ UNCHANGED <<files, tagIndexes, acked, crashed>>
           ELSE /\ files' = Remove(c.tblName, c.fileId)
                /\ acked' = Forget(c.tblName, c.fileId)
                /\ \E outcome \in MapOutcomes(self) : StartIndexing(self, outcome)
                /\ UNCHANGED <<mutexes, call, returned>>
    /\ UNCHANGED rwLocks

\* The rest of initTagsIndex, then the method's own handling of its result: a
\* panic unwinds through the deferred Unlock to the caller.
Indexing(self, op) == ~crashed /\ pc[self] = "indexing" /\ call[self].op = op

FinishIndexing(self, outcome) ==
    IF outcome = "ok" THEN storeTagsIndex(call[self].tblName, tagIndexes)
    ELSE [storeTagsIndex(call[self].tblName, tagIndexes) EXCEPT !.indexes = tagIndexes]

CreateReturn(self) ==
    /\ Indexing(self, "Create")
    /\ \E outcome \in MapOutcomes(self) :
         LET c    == call[self]
             init == FinishIndexing(self, outcome)
         IN  IF outcome = "fatal"
             THEN crashed' = TRUE
                  /\ UNCHANGED <<tagIndexes, call, returned, mutexes, pc, acked>>
             ELSE /\ tagIndexes' = init.indexes
                  /\ Returned(self, IF init.err = "nil" THEN c.fileId ELSE NoId,
                              c.rec, <<>>, init.err)
                  /\ acked' = IF init.err = "nil"
                              THEN Acknowledge(c.tblName, c.fileId, "Create", c.rec)
                              ELSE acked
                  /\ UNCHANGED crashed
    /\ UNCHANGED <<files, rwLocks>>

\* Update calls initTagsIndex without taking its result: the err it tests is
\* still WriteFile's, which was nil.
UpdateReturn(self) ==
    /\ Indexing(self, "Update")
    /\ \E outcome \in MapOutcomes(self) :
         LET c    == call[self]
             init == FinishIndexing(self, outcome)
             err  == IF init.err = "panic" THEN "panic" ELSE "nil"
         IN  IF outcome = "fatal"
             THEN crashed' = TRUE
                  /\ UNCHANGED <<tagIndexes, call, returned, mutexes, pc, acked>>
             ELSE /\ tagIndexes' = init.indexes
                  /\ Returned(self, c.fileId, c.rec, <<>>, err)
                  /\ acked' = IF err = "nil"
                              THEN Acknowledge(c.tblName, c.fileId, "Update", c.rec)
                              ELSE acked
                  /\ UNCHANGED crashed
    /\ UNCHANGED <<files, rwLocks>>

DeleteReturn(self) ==
    /\ Indexing(self, "Delete")
    /\ \E outcome \in MapOutcomes(self) :
         LET c    == call[self]
             init == FinishIndexing(self, outcome)
         IN  IF outcome = "fatal"
             THEN crashed' = TRUE
                  /\ UNCHANGED <<tagIndexes, call, returned, mutexes, pc, acked>>
             ELSE /\ tagIndexes' = init.indexes
                  /\ Returned(self, c.fileId, c.rec, <<>>, init.err)
                  /\ acked' = IF init.err = "nil"
                              THEN Acknowledge(c.tblName, c.fileId, "Delete", c.rec)
                              ELSE acked
                  /\ UNCHANGED crashed
    /\ UNCHANGED <<files, rwLocks>>

(***************************************************************************)
(* Close: for each mutex of db.rwLocks, in the order the range over the map *)
(* yields them, Lock and then Unlock.                                       *)
(***************************************************************************)
Close(self) ==
    /\ ~crashed
    /\ pc[self] = "idle"
    /\ call' = [call EXCEPT ![self] =
                  [NewCall("Close", "") EXCEPT !.rest = DOMAIN rwLocks]]
    /\ pc' = [pc EXCEPT ![self] = "closing"]
    /\ returned' = Results(self, NewCall("none", ""))
    /\ UNCHANGED <<files, rwLocks, mutexes, tagIndexes, acked, crashed>>

Closing(self, at) == ~crashed /\ pc[self] = at /\ call[self].op = "Close"

\* The loop yields the next table: rwLock.Lock().
CloseLock(self) ==
    /\ Closing(self, "closing")
    /\ \E tblName \in call[self].rest :
         LET a     == rwLocks[tblName]
             write == locksForWriting("Close")
         IN  /\ call' = [call EXCEPT ![self].tblName = tblName,
                                     ![self].rest = @ \ {tblName}]
             /\ mutexes' = [mutexes EXCEPT ![a] =
                              IF write
                              THEN IF @.w = 0 THEN [@ EXCEPT !.w = self] ELSE @
                              ELSE RLock(@, self)]
             /\ pc' = [pc EXCEPT ![self] =
                         IF write THEN AfterLock(mutexes[a])
                         ELSE AfterRLock(mutexes[a])]
    /\ UNCHANGED <<files, rwLocks, tagIndexes, returned, acked, crashed>>

\* rwLock.Unlock()
CloseUnlock(self) ==
    /\ Closing(self, "locked")
    /\ LET a     == rwLocks[call[self].tblName]
           write == locksForWriting("Close")
           woken == IF write THEN mutexes[a].waiting ELSE {}
       IN  /\ mutexes' = [mutexes EXCEPT ![a] =
                            IF write THEN Unlock(@) ELSE RUnlock(@, self)]
           /\ pc' = [g \in DOMAIN pc |->
                       IF g = self THEN "closing"
                       ELSE IF g \in woken THEN "locked" ELSE pc[g]]
    /\ UNCHANGED <<files, rwLocks, tagIndexes, call, returned, acked, crashed>>

\* The loop is over: Close returns.
CloseReturn(self) ==
    /\ Closing(self, "closing")
    /\ call[self].rest = {}
    /\ returned' = Results(self, call[self])
    /\ call' = [call EXCEPT ![self] = NewCall("none", "")]
    /\ pc' = [pc EXCEPT ![self] = "idle"]
    /\ UNCHANGED <<files, rwLocks, mutexes, tagIndexes, acked, crashed>>

(***************************************************************************)
(* OpenDB.                                                                 *)
(***************************************************************************)
\* The table directories in ReadDir's order, and the mutex OpenDB allocates
\* for each: new(sync.RWMutex) once per directory.
Dirs == <<"bars", "foos">>

\* One mutex allocated before the loop over the directories.
oneRWMutex(tblName) == 1

newRWMutex(tblName) == CHOOSE a \in 1..Len(Dirs) : Dirs[a] = tblName

\* fieldsToIndex, as tests/db_test.go passes it.
FieldsToIndex == [foos |-> <<"tags", "bar">>]

\* The loop of OpenDB over fieldsToIndex: initTagsIndex for each table that
\* lists "tags"; the first failure aborts the open.
RECURSIVE openIndexes(_, _)
openIndexes(tbls, opened) ==
    IF tbls = {} \/ opened.err # "nil" THEN opened
    ELSE LET tbl == CHOOSE t \in tbls : TRUE
         IN  openIndexes(tbls \ {tbl},
                         IF "tags" \in Range(FieldsToIndex[tbl])
                         THEN initTagsIndex(tbl, opened.indexes) ELSE opened)

OpenDB == openIndexes(DOMAIN FieldsToIndex, [err |-> "nil", indexes |-> EmptyMap])

Goroutines == {1, 2, 3}

NoFiles == [x \in {} |-> JText("")]

\* The state when OpenDB has returned a handle on a directory holding the
\* given (empty) table directories; the callers' results are recorded for the
\* watched goroutines.
Opened(dirs, watched) ==
    /\ files = [t \in dirs |-> NoFiles]
    /\ rwLocks = [t \in dirs |-> newRWMutex(t)]
    /\ mutexes = [a \in {newRWMutex(t) : t \in dirs} |-> NewRWMutex]
    /\ OpenDB.err = "nil"
    /\ tagIndexes = OpenDB.indexes
    /\ pc = [g \in Goroutines |-> "idle"]
    /\ call = [g \in Goroutines |-> NewCall("none", "")]
    /\ returned = [g \in watched |-> NewCall("none", "")]
    /\ acked = [t \in IF watched = {} THEN {} ELSE dirs |->
                 [x \in {} |-> [op |-> "none", rec |-> ZeroRec("Foo")]]]
    /\ crashed = FALSE

(***************************************************************************)
(* What the callers pass.                                                  *)
(***************************************************************************)
\* One caller's repertoire: records to store, records to load into, file ids,
\* lists of search tags, search values, the largest id it lets a table reach,
\* and the names it passes as tables besides the directories OpenDB found.
Repertoire ==
    [recs         |-> { GoRec("Foo", "x", <<"a">>, FALSE),
                        GoRec("Foo", "y", <<"foos", "a", "foos">>, FALSE),
                        GoRec("Memo", "x", <<>>, FALSE) },
     receivers    |-> {ZeroRec("Foo"), ZeroRec("Memo")},
     fileIds      |-> {<<"1">>, <<"2">>, <<"3">>, <<"x">>},
     searchTags   |-> {<<>>, <<"a">>, <<"foos">>, <<"a", "foos">>, <<"a", "a">>,
                       <<"a", "b">>},
     searchValues |-> {StringValue("x"), IntValue("int", 7)},
     maxId        |-> MaxId,
     others       |-> {}]

\* The repertoire of each of several concurrent callers.
SmallRepertoire ==
    [recs         |-> {GoRec("Foo", "x", <<"a">>, FALSE)},
     receivers    |-> {ZeroRec("Foo")},
     fileIds      |-> {<<"1">>},
     searchTags   |-> {<<"a">>},
     searchValues |-> {StringValue("x")},
     maxId        |-> SmallMaxId,
     others       |-> {}]

\* The largest id the table can reach once the calls under way have written.
Creating(tblName) ==
    {g \in Goroutines : pc[g] \notin {"idle", "indexing"} /\ call[g].op = "Create"
                        /\ call[g].tblName = tblName}

Updating(tblName) ==
    {g \in Goroutines : pc[g] # "idle" /\ call[g].op = "Update"
                        /\ call[g].tblName = tblName}

HighWater(tblName) ==
    LET all == {Atoi(id).val : id \in DOMAIN files[tblName]}
               \cup {Atoi(call[g].fileId).val : g \in Updating(tblName)} \cup {0}
    IN  (CHOOSE n \in all : \A m \in all : m <= n) + Cardinality(Creating(tblName))

Reads(self, can) ==
    \E tblName \in DOMAIN rwLocks \cup can.others :
        \/ \E rec \in can.receivers, fileId \in can.fileIds :
               Find(self, tblName, rec, fileId)
        \/ FindAllIds(self, tblName)
        \/ \E searchTags \in can.searchTags : FindAllIdsForTags(self, tblName, searchTags)

Scans(self, can) ==
    \E tblName \in DOMAIN rwLocks \cup can.others, searchValue \in can.searchValues :
        \/ FindFirstIdForField(self, tblName, "bar", searchValue)
        \/ FindAllIdsForField(self, tblName, "bar", searchValue)

Writes(self, can) ==
    \E tblName \in DOMAIN rwLocks \cup can.others :
        \/ \E rec \in can.recs :
               /\ tblName \in DOMAIN files => HighWater(tblName) < can.maxId
               /\ Create(self, tblName, rec)
        \/ \E rec \in can.recs, fileId \in can.fileIds :
               /\ Atoi(fileId).val + Cardinality(Creating(tblName)) <= can.maxId
               /\ Update(self, tblName, rec, fileId)
        \/ \E fileId \in can.fileIds : Delete(self, tblName, fileId)

ReadSteps(self) ==
    \/ FindReturn(self)
    \/ FindAllIdsReturn(self)
    \/ FindAllIdsForTagsReturn(self)

ScanSteps(self) ==
    \/ FindFirstIdForFieldReturn(self)
    \/ FindAllIdsForFieldReturn(self)

WriteSteps(self) ==
    \/ CreateWrite(self)
    \/ CreateReturn(self)
    \/ UpdateWrite(self)
    \/ UpdateReturn(self)
    \/ DeleteRemove(self)
    \/ DeleteReturn(self)

(***************************************************************************)
(* Spec: one caller on one table, with the full repertoire.                *)
(***************************************************************************)
Init == Opened({"foos"}, {1})

Next ==
    \E self \in {1} :
        \/ Reads(self, Repertoire)
        \/ Writes(self, Repertoire)
        \/ ReadSteps(self)
        \/ WriteSteps(self)

Spec == Init /\ [][Next]_vars

(***************************************************************************)
(* LockSpec: three concurrent callers on one table.                        *)
(***************************************************************************)
LockInit == Opened({"foos"}, {})

LockNext ==
    \E self \in {1, 2, 3} :
        \/ Reads(self, SmallRepertoire)
        \/ Scans(self, SmallRepertoire)
        \/ Writes(self, SmallRepertoire)
        \/ Lock(self)
        \/ ReadSteps(self)
        \/ ScanSteps(self)
        \/ WriteSteps(self)

LockSpec == LockInit /\ [][LockNext]_vars

(***************************************************************************)
(* TablesSpec: two concurrent callers on two tables.                       *)
(***************************************************************************)
TablesInit == Opened({"foos", "bars"}, {})

TablesNext ==
    \E self \in {1, 2} :
        \/ Reads(self, SmallRepertoire)
        \/ Scans(self, SmallRepertoire)
        \/ Writes(self, SmallRepertoire)
        \/ Lock(self)
        \/ ReadSteps(self)
        \/ ScanSteps(self)
        \/ WriteSteps(self)

TablesSpec == TablesInit /\ [][TablesNext]_vars

(***************************************************************************)
(* CloseSpec: one goroutine calls Close while another calls the other      *)
(* methods on two tables.                                                  *)
(***************************************************************************)
CloseInit == Opened({"foos", "bars"}, {})

CloseNext ==
    \/ \E self \in {1} :
          \/ Close(self)
          \/ CloseLock(self)
          \/ Lock(self)
          \/ CloseUnlock(self)
          \/ CloseReturn(self)
    \/ \E self \in {2} :
          \/ Reads(self, SmallRepertoire)
          \/ Writes(self, SmallRepertoire)
          \/ Lock(self)
          \/ ReadSteps(self)
          \/ WriteSteps(self)

CloseSpec == CloseInit /\ [][CloseNext]_vars

(***************************************************************************)
(* LiveSpec: one goroutine calls Close while a second calls the mutations   *)
(* and a third the queries, on two tables, under the scheduling the Go      *)
(* runtime provides: a goroutine that can run does run, and a goroutine     *)
(* waiting in Lock, which can take the mutex each time it is released, does *)
(* take it (sync.Mutex hands the mutex over to a waiter that has been       *)
(* passed over).                                                            *)
(***************************************************************************)
LiveInit == Opened({"foos", "bars"}, {})

LiveNext ==
    \/ \E self \in {1} :
          \/ Close(self)
          \/ CloseLock(self)
          \/ Lock(self)
          \/ CloseUnlock(self)
          \/ CloseReturn(self)
    \/ \E self \in {2} :
          \/ Writes(self, SmallRepertoire)
          \/ Lock(self)
          \/ WriteSteps(self)
    \/ \E self \in {3} :
          \/ Reads(self, SmallRepertoire)
          \/ ReadSteps(self)

\* The steps of a call that is under way and does not wait.
Runs(self) ==
    \/ ReadSteps(self)
    \/ WriteSteps(self)
    \/ CloseLock(self)
    \/ CloseUnlock(self)
    \/ CloseReturn(self)

Scheduling == \A self \in Goroutines : WF_vars(Runs(self)) /\ SF_vars(Lock(self))

LiveSpec == LiveInit /\ [][LiveNext]_vars /\ Scheduling

(***************************************************************************)
(* StrangerSpec: one caller on the table foos who also passes the name of  *)
(* a table that had no directory when OpenDB ran.                          *)
(***************************************************************************)
StrangerRepertoire ==
    [SmallRepertoire EXCEPT !.fileIds = {<<"1">>, <<"x">>},
                            !.searchTags = {<<>>, <<"a">>},
                            !.others = {"bazs"}]

StrangerInit == Opened({"foos"}, {1})

StrangerNext ==
    \E self \in {1} :
        \/ Reads(self, StrangerRepertoire)
        \/ Scans(self, StrangerRepertoire)
        \/ Writes(self, StrangerRepertoire)
        \/ ReadSteps(self)
        \/ ScanSteps(self)
        \/ WriteSteps(self)

StrangerSpec == StrangerInit /\ [][StrangerNext]_vars

(***************************************************************************)
(* BrokenSpec: one caller on the table foos who also stores a value that   *)
(* json.Marshal encodes as a bare string, which no rebuild of the index    *)
(* can decode into a map.                                                  *)
(***************************************************************************)
BrokenRepertoire ==
    [SmallRepertoire EXCEPT !.recs = @ \cup {GoRec("Text", "x", <<>>, TRUE)},
                            !.fileIds = {<<"1">>, <<"2">>},
                            !.maxId = MaxId]

BrokenInit == Opened({"foos"}, {1})

BrokenNext ==
    \E self \in {1} :
        \/ Reads(self, BrokenRepertoire)
        \/ Writes(self, BrokenRepertoire)
        \/ ReadSteps(self)
        \/ WriteSteps(self)

BrokenSpec == BrokenInit /\ [][BrokenNext]_vars

(***************************************************************************)
(* OddIdSpec: one caller on the table foos who passes ids that are not     *)
(* positive decimal numbers in canonical form.                             *)
(***************************************************************************)
OddIdRepertoire ==
    [SmallRepertoire EXCEPT
        !.fileIds = {<<"0">>, <<"-", "1">>, <<"+", "1">>, <<"0", "1">>, <<"x">>}]

OddIdInit == Opened({"foos"}, {1})

OddIdNext ==
    \E self \in {1} :
        \/ Reads(self, OddIdRepertoire)
        \/ Writes(self, OddIdRepertoire)
        \/ ReadSteps(self)
        \/ WriteSteps(self)

OddIdSpec == OddIdInit /\ [][OddIdNext]_vars

(***************************************************************************)
(* WritersSpec: three concurrent callers of Create, Update and Delete on   *)
(* one table.                                                              *)
(***************************************************************************)
WritersRepertoire == [SmallRepertoire EXCEPT !.maxId = MaxId]

WritersInit == Opened({"foos"}, {})

WritersNext ==
    \E self \in {1, 2, 3} :
        \/ Writes(self, WritersRepertoire)
        \/ Lock(self)
        \/ WriteSteps(self)

WritersSpec == WritersInit /\ [][WritersNext]_vars

(***************************************************************************)
(* ScanSpec: one caller on the table foos who stores records with and      *)
(* without the field bar and searches that field for a string, an int and  *)
(* a value of another type.                                                *)
(***************************************************************************)
ScanRepertoire ==
    [SmallRepertoire EXCEPT
        !.recs = @ \cup {GoRec("Bare", "", <<>>, TRUE)},
        !.searchValues = {StringValue("x"), IntValue("int", 7), IntValue("bool", 0)},
        !.maxId = MaxId]

ScanInit == Opened({"foos"}, {1})

ScanNext ==
    \E self \in {1} :
        \/ Scans(self, ScanRepertoire)
        \/ Writes(self, ScanRepertoire)
        \/ ScanSteps(self)
        \/ WriteSteps(self)

ScanSpec == ScanInit /\ [][ScanNext]_vars

(***************************************************************************)
(* Properties.                                                             *)
(***************************************************************************)
\* The mutation of file id N of table t that last returned nil, if no later
\* mutation has touched the file.
LastAcked(t, N, op) ==
    /\ t \in DOMAIN acked
    /\ N \in DOMAIN acked[t]
    /\ acked[t][N].op = op

\* Find has just returned r for an id whose last mutation was op, into a record
\* of the type that was stored.
FoundAfter(r, op) ==
    /\ r.op = "Find"
    /\ LastAcked(r.tblName, r.fileId, op)
    /\ acked[r.tblName][r.fileId].rec.struct = r.rec.struct

\* Find returned the stored record field for field, with the id set by AfterFind.
FoundAsStored(r) ==
    /\ r.err = "nil"
    /\ r.rec = [acked[r.tblName][r.fileId].rec EXCEPT !.FileId = r.fileId]

\* C1: when Create(t, doc) has returned id N and no later mutation touched N,
\* Find(t, N) returns nil and a record equal field for field to doc, whose
\* AfterFind hook received N.
C1_CreateThenFind ==
    \A g \in DOMAIN returned :
        FoundAfter(returned[g], "Create") => FoundAsStored(returned[g])

\* Find succeeded on a created record with tags while another id of the table
\* has since been updated or deleted.
C1_Witness ==
    \E g \in DOMAIN returned :
        /\ FoundAfter(returned[g], "Create")
        /\ returned[g].err = "nil"
        /\ returned[g].rec.Tags # <<>>
        /\ \E other \in DOMAIN acked[returned[g].tblName] :
               acked[returned[g].tblName][other].op \in {"Update", "Delete"}

\* The id the claim expects of Create on a table holding the given ids.
IdAfterMax(ids) ==
    IF ids = {} THEN <<"1">>
    ELSE LET vals == {Atoi(id).val : id \in ids}
         IN  Itoa((CHOOSE n \in vals : \A m \in vals : m <= n) + 1)

\* C2: Create assigns "1" on an empty table and otherwise the largest parsed id
\* plus one, writes a file of that name that did not exist, and returns that id.
C2_MaxBasedIds ==
    [][\A g \in DOMAIN returned :
         /\ (pc[g] = "locked" /\ call[g].op = "Create" /\ pc'[g] = "indexing")
              => /\ call'[g].fileId = IdAfterMax(DOMAIN files[call[g].tblName])
                 /\ call'[g].fileId \notin DOMAIN files[call[g].tblName]
                 /\ DOMAIN files'[call[g].tblName] =
                        DOMAIN files[call[g].tblName] \cup {call'[g].fileId}
         /\ (pc[g] = "indexing" /\ call[g].op = "Create" /\ pc'[g] = "idle"
               /\ returned'[g].err = "nil")
              => returned'[g].fileId = call[g].fileId]_vars

\* Create has returned "3" on a table whose id "1" is free: the gap stays.
C2_Witness ==
    \E g \in DOMAIN returned :
        /\ returned[g].op = "Create"
        /\ returned[g].err = "nil"
        /\ returned[g].fileId = <<"3">>
        /\ DOMAIN files[returned[g].tblName] = {<<"2">>, <<"3">>}

\* C3: when Update(t, N, doc) has returned nil and no later mutation touched N,
\* the file exists, and Find(t, N) returns nil and a record equal field for
\* field to doc with id N, whether or not N existed before.
C3_UpdateThenFind ==
    /\ \A t \in DOMAIN acked : \A N \in DOMAIN acked[t] :
           LastAcked(t, N, "Update") => N \in DOMAIN files[t]
    /\ \A g \in DOMAIN returned :
           FoundAfter(returned[g], "Update") => FoundAsStored(returned[g])

\* Find succeeded on id "3", which Update wrote and no Create has ever been
\* acknowledged for on a table that holds nothing else.
C3_Witness ==
    \E g \in DOMAIN returned :
        /\ FoundAfter(returned[g], "Update")
        /\ returned[g].err = "nil"
        /\ returned[g].fileId = <<"3">>
        /\ DOMAIN acked[returned[g].tblName] = {<<"3">>}
        /\ DOMAIN files[returned[g].tblName] = {<<"3">>}

\* C4: when Delete(t, N) has returned nil and no later Create or Update wrote
\* N, the file is gone, Find(t, N) fails with the not-found error, and
\* FindAllIds(t) does not list N.
C4_DeleteThenFind ==
    /\ \A t \in DOMAIN acked : \A N \in DOMAIN acked[t] :
           LastAcked(t, N, "Delete") => N \notin DOMAIN files[t]
    /\ \A g \in DOMAIN returned :
           LET r == returned[g]
           IN  /\ (r.op = "Find" /\ LastAcked(r.tblName, r.fileId, "Delete"))
                    => r.err = "no such file"
               /\ r.op = "FindAllIds"
                    => \A N \in Range(r.ids) : ~LastAcked(r.tblName, N, "Delete")

\* Find failed on a deleted id while the table still holds another record.
C4_Witness ==
    \E g \in DOMAIN returned :
        /\ returned[g].op = "Find"
        /\ LastAcked(returned[g].tblName, returned[g].fileId, "Delete")
        /\ returned[g].err = "no such file"
        /\ DOMAIN files[returned[g].tblName] # {}

\* The ids the table's index lists under a tag.
Indexed(t, tag) ==
    IF t \in DOMAIN tagIndexes /\ tag \in DOMAIN tagIndexes[t]
    THEN Range(tagIndexes[t][tag]) ELSE {}

\* C5: FindAllIdsForTags returns, each once, exactly the ids the index lists
\* under every requested tag: duplicates in the request change nothing, a tag
\* the index lacks empties the result, and so does an empty request.
C5_TagsAndSemantics ==
    \A g \in DOMAIN returned :
        LET r == returned[g]
        IN  r.op = "FindAllIdsForTags" =>
              /\ r.err = "nil"
              /\ \A i, j \in DOMAIN r.ids : r.ids[i] = r.ids[j] => i = j
              /\ Range(r.ids) =
                   IF r.searchTags = <<>> THEN {}
                   ELSE {N \in DOMAIN files[r.tblName] \cup UNION {Indexed(r.tblName, tag) : tag \in Range(r.searchTags)} :
                           \A tag \in Range(r.searchTags) : N \in Indexed(r.tblName, tag)}

\* A request naming a tag twice returned one id and left out another id that
\* the table holds.
C5_Witness ==
    \E g \in DOMAIN returned :
        LET r == returned[g]
        IN  /\ r.op = "FindAllIdsForTags"
            /\ \E i, j \in DOMAIN r.searchTags : i # j /\ r.searchTags[i] = r.searchTags[j]
            /\ Len(r.ids) = 1
            /\ DOMAIN files[r.tblName] \ Range(r.ids) # {}

\* The tags a record file itself carries.
OwnTags(data) ==
    IF data.k = "object" /\ "tags" \in DOMAIN data.o /\ data.o["tags"].k = "array"
    THEN Range(data.o["tags"].a) ELSE {}

\* The table's index, as a mapping from tags to sets of ids, is the one derived
\* from the table's record files.
IndexMatchesFiles(t) ==
    \A tag \in (IF t \in DOMAIN tagIndexes THEN DOMAIN tagIndexes[t] ELSE {})
                 \cup UNION {OwnTags(files[t][N]) : N \in DOMAIN files[t]} :
        Indexed(t, tag) = {N \in DOMAIN files[t] : tag \in OwnTags(files[t][N])}

\* C6: when a Create, Update or Delete has just returned without error, the
\* table's tag index equals the mapping derived from the record files on disk.
C6_IndexAfterMutation ==
    \A g \in DOMAIN returned :
        (returned[g].op \in Mutations /\ returned[g].err = "nil")
            => IndexMatchesFiles(returned[g].tblName)

\* Goroutine g is inside the critical section of a method on table t.
Inside(g, t) == pc[g] \in {"locked", "indexing"} /\ call[g].tblName = t
Writing(g, t) == Inside(g, t) /\ call[g].op \in Mutations
Reading(g, t) == Inside(g, t) /\ call[g].op \notin Mutations

\* C7: per table, at most one Create/Update/Delete is inside its critical
\* section, and while one is (from the file write to the end of the index
\* rebuild) no read operation on that table is inside its critical section.
C7_WritersExclusive ==
    \A t \in DOMAIN files : \A w \in Goroutines :
        Writing(w, t) => \A g \in Goroutines \ {w} : ~Inside(g, t)

\* A writer is rebuilding the index while a reader and another writer, both
\* called meanwhile, are kept out.
C7_Witness ==
    \E w, r, v \in Goroutines :
        /\ Writing(w, "foos") /\ pc[w] = "indexing"
        /\ pc[r] = "RLock" /\ call[r].tblName = "foos"
        /\ pc[v] = "Lock" /\ call[v].tblName = "foos"

\* A reader blocked in RLock; a writer that holds the writer mutex and has yet
\* to enter, the readers inside having to leave first.
BlockedReader(g, t) == pc[g] = "RLock" /\ call[g].tblName = t
AwaitingReaders(g, t) == pc[g] = "LockWait" /\ call[g].tblName = t

\* C8 as stated: a read operation is blocked only while a writer is inside its
\* critical section on the table, and a writer is inside only when no reader is.
C8_BlockedOnlyByActiveWriter ==
    \A t \in DOMAIN files :
        /\ \A r \in Goroutines :
               BlockedReader(r, t) => \E w \in Goroutines : Writing(w, t)
        /\ \A w \in Goroutines :
               Writing(w, t) => \A r \in Goroutines : ~Reading(r, t)

\* C8, amended: a read operation is blocked only while a writer is inside its
\* critical section or has called Lock and has yet to enter behind the readers
\* inside; with no such writer the readers all enter; and a writer is inside
\* only when no reader is.
C8_BlockedOnlyByWriter ==
    \A t \in DOMAIN files :
        /\ \A r \in Goroutines :
               BlockedReader(r, t) =>
                   \E w \in Goroutines : Writing(w, t) \/ AwaitingReaders(w, t)
        /\ \A w \in Goroutines :
               Writing(w, t) => \A r \in Goroutines : ~Reading(r, t)

\* A reader is blocked behind a writer that itself waits for another reader.
C8_Witness ==
    \E r, w, q \in Goroutines :
        /\ Reading(r, "foos")
        /\ AwaitingReaders(w, "foos")
        /\ BlockedReader(q, "foos")

\* Goroutine g has called a method on table t that has not returned.
InFlight(g, t) == pc[g] # "idle" /\ call[g].tblName = t

\* Goroutine g cannot take its next step: it waits for a writer to unlock, for
\* the writer mutex, or for the readers inside to leave.
Blocked(g) ==
    \/ pc[g] = "RLock"
    \/ pc[g] = "Lock" /\ mutexes[rwLocks[call[g].tblName]].w # 0
    \/ pc[g] = "LockWait" /\ mutexes[rwLocks[call[g].tblName]].readers # {}

C10_IndexWheneverUnlocked ==
    \A t \in DOMAIN FieldsToIndex \cap DOMAIN files :
        ("tags" \in Range(FieldsToIndex[t]) /\ \A g \in Goroutines : ~Writing(g, t))
            => IndexMatchesFiles(t)

\* Goroutines g and h are each about to read or write db.tagIndexes, one of
\* them to write it.
Conflicting(g, h) ==
    /\ g # h
    /\ MapAccess(g) # "none"
    /\ MapAccess(h) # "none"
    /\ "write" \in {MapAccess(g), MapAccess(h)}

\* C11: no state has one goroutine about to write the map holding all tables'
\* tag indexes while another goroutine is about to read or write it, unless a
\* lock they both hold or await orders them: they operate on the same table.
C11_NoUnorderedMapAccess ==
    \A g, h \in Goroutines :
        Conflicting(g, h) => call[g].tblName = call[h].tblName

\* A step of Close by goroutine c: of the goroutines' steps only its own change
\* its position while it runs Close.
CloseStep(c) ==
    /\ pc'[c] # pc[c]
    /\ call[c].op = "Close" \/ call'[c].op = "Close"

\* C12 as stated: in the state where Close returns no public operation is
\* inside its critical section on any table, and Close changes neither the
\* record files nor any tag index.
C12_CloseIsBarrier ==
    [][\A c \in Goroutines :
         CloseStep(c) =>
             /\ UNCHANGED <<files, tagIndexes>>
             /\ (pc[c] = "closing" /\ pc'[c] = "idle")
                  => \A g \in Goroutines, t \in DOMAIN files : ~Inside(g, t)]_vars

\* C12, amended: Close is a barrier on one table at a time: whenever Close
\* acquires a table's lock, and for as long as it holds it, no public operation
\* is inside its critical section on that table; and Close changes neither the
\* record files nor any tag index.
C12_CloseIsBarrierPerTable ==
    /\ [](\A c \in Goroutines :
            (pc[c] = "locked" /\ call[c].op = "Close")
                => \A g \in Goroutines \ {c} : ~Inside(g, call[c].tblName))
    /\ [][\A c \in Goroutines :
            CloseStep(c) => UNCHANGED <<files, tagIndexes>>]_vars

\* Close holds the lock of its last table while an operation that was called
\* meanwhile is inside its critical section on the table Close released first.
C12_Witness ==
    \E c, g \in Goroutines :
        /\ pc[c] = "locked" /\ call[c].op = "Close" /\ call[c].rest = {}
        /\ \E t \in DOMAIN files \ {call[c].tblName} : Writing(g, t)

\* C13: a public method called with a table name that had no directory at open
\* time returns the unknown-table error to its caller, and the tables that have
\* a lock are those OpenDB found.
C13_UnknownTableError ==
    /\ DOMAIN rwLocks = DOMAIN files
    /\ \A g \in DOMAIN returned :
           (returned[g].op # "none" /\ returned[g].tblName \notin DOMAIN rwLocks)
               => returned[g].err = "unknown table"

\* A rebuild of the table's index over the record files as they are fails.
RebuildFails(t) ==
    scanFiles(t, fileIdsInDataDir(t), EmptyMap, EmptyMap).err # "nil"

\* C14: a Create, Update or Delete whose file change is followed by a failing
\* rebuild of the index never reports success, and the file change stays: the
\* file holds what Update wrote, the file Delete removed is gone.
C14_RebuildErrorReturned ==
    \A g \in DOMAIN returned :
        LET r == returned[g]
            t == r.tblName
        IN  (r.op \in Mutations /\ t \in DOMAIN files /\ RebuildFails(t)) =>
              /\ r.err # "nil"
              /\ (r.op = "Update" /\ Atoi(r.fileId).err = "nil")
                   => /\ r.fileId \in DOMAIN files[t]
                      /\ files[t][r.fileId] = Marshal(r.rec)
              /\ (r.op = "Delete" /\ Atoi(r.fileId).err = "nil")
                   => r.fileId \notin DOMAIN files[t]

\* A positive integer in canonical decimal form.
IsPositiveId(id) ==
    /\ Atoi(id).err = "nil"
    /\ Atoi(id).val > 0
    /\ Itoa(Atoi(id).val) = id

\* C15: Update and Delete fail with the invalid-id error whenever the id is not
\* a positive integer in canonical decimal form; every record id present in a
\* table and every id Create returns is such an integer.
C15_IdsArePositiveIntegers ==
    /\ \A g \in DOMAIN returned :
           LET r == returned[g]
           IN  /\ (r.op \in {"Update", "Delete"} /\ ~IsPositiveId(r.fileId))
                    => r.err = "invalid syntax"
               /\ (r.op = "Create" /\ r.err = "nil") => IsPositiveId(r.fileId)
    /\ \A t \in DOMAIN files : \A id \in DOMAIN files[t] : IsPositiveId(id)

\* Some record file of the table has no tags field, or one that is no array.
Malformed(t) ==
    \E id \in DOMAIN files[t] :
        ~(/\ files[t][id].k = "object"
          /\ "tags" \in DOMAIN files[t][id].o
          /\ files[t][id].o["tags"].k = "array")

\* How a rebuild fails on a record it cannot decode: json.Unmarshal's error, or
\* the run-time panic of a failed type assertion.
DecodeFailures == {"json: cannot unmarshal", "panic"}

\* C16: a mutation whose rebuild meets a record file without a tags array fails
\* on it, wherever the file comes in the scan and whatever the other files hold;
\* and a rebuild that succeeds lists no id under a tag its record does not
\* itself contain.
C16_RebuildRejectsMissingTags ==
    \A g \in DOMAIN returned :
        LET r == returned[g]
            t == r.tblName
        IN  (r.op \in Mutations /\ r.err \notin {"invalid syntax", "no such file"}) =>
              /\ Malformed(t) => r.err \in DecodeFailures
              /\ r.err = "nil" =>
                   \A tag \in DOMAIN tagIndexes[t] : \A id \in Indexed(t, tag) :
                       id \in DOMAIN files[t] /\ tag \in OwnTags(files[t][id])

\* C17: under any interleaving of concurrent Create, Update and Delete calls on
\* one table, the step in which a Create writes its file writes under an id
\* that names no file of the table, and leaves every other record as it was:
\* Create overwrites no record, so two Creates hold the same id only if the
\* first one's record was deleted in between.
C17_CreateNeverOverwrites ==
    [][\A g \in Goroutines :
         (pc[g] = "locked" /\ call[g].op = "Create" /\ pc'[g] = "indexing") =>
             LET t == call[g].tblName
                 N == call'[g].fileId
             IN  /\ N \notin DOMAIN files[t]
                 /\ DOMAIN files'[t] = DOMAIN files[t] \cup {N}
                 /\ \A id \in DOMAIN files[t] : files'[t][id] = files[t][id]]_vars

\* A Create has written record "2" beside record "1", which another Create
\* wrote, and is rebuilding the index while a third Create, called meanwhile,
\* waits for the lock.
C17_Witness ==
    \E g, h \in Goroutines :
        /\ pc[g] = "indexing" /\ call[g].op = "Create" /\ call[g].fileId = <<"2">>
        /\ DOMAIN files["foos"] = {<<"1">>, <<"2">>}
        /\ pc[h] = "Lock" /\ call[h].op = "Create"

\* The ids of the records of the table whose own document holds the value under
\* the field.  The documents hold strings and arrays of strings, so a value
\* that is no string equals none of them.
Matching(t, searchField, searchValue) ==
    {id \in DOMAIN files[t] :
        /\ files[t][id].k = "object"
        /\ searchField \in DOMAIN files[t][id].o
        /\ searchValue.t = "string"
        /\ files[t][id].o[searchField].k = "string"
        /\ files[t][id].o[searchField].s = searchValue.s}

\* C18: FindAllIdsForField returns exactly the ids of the records whose own
\* document holds the search value under the field, FindFirstIdForField one of
\* them or the empty id if there is none; a record without the field, or with a
\* value of another kind, never matches, and a search value of a type other
\* than string or integer matches nothing.
C18_FieldScansExact ==
    \A g \in DOMAIN returned :
        LET r  == returned[g]
            ms == Matching(r.tblName, r.searchField, r.searchValue)
        IN  /\ r.op = "FindAllIdsForField" =>
                  /\ r.err = "nil"
                  /\ Range(r.ids) = ms
                  /\ \A i, j \in DOMAIN r.ids : r.ids[i] = r.ids[j] => i = j
            /\ r.op = "FindFirstIdForField" =>
                  /\ r.err = "nil"
                  /\ IF ms = {} THEN r.fileId = NoId ELSE r.fileId \in ms

\* C19: after a mutation whose rebuild succeeded, the index entry of every tag
\* lists, each once, exactly the ids of the records on disk whose tags array
\* contains the tag: nothing of the previous mapping survives on its own.
C19_RebuildReplacesMapping ==
    \A g \in DOMAIN returned :
        LET r == returned[g]
            t == r.tblName
        IN  (r.op \in Mutations /\ r.err = "nil" /\ ~RebuildFails(t)) =>
              /\ t \in DOMAIN tagIndexes
              /\ \A tag \in DOMAIN tagIndexes[t] :
                     LET ids == tagIndexes[t][tag]
                     IN  /\ \A i, j \in DOMAIN ids : ids[i] = ids[j] => i = j
                         /\ Range(ids) =
                              {N \in DOMAIN files[t] : tag \in OwnTags(files[t][N])}
              /\ \A N \in DOMAIN files[t] :
                     OwnTags(files[t][N]) \subseteq DOMAIN tagIndexes[t]

\* The call is an Update or Delete with an id that does not parse as an integer,
\* or a Delete of an integer id that names no file of the table.
Unparsable(c) == c.op \in {"Update", "Delete"} /\ Atoi(c.fileId).err # "nil"
Missing(c) ==
    /\ c.op = "Delete"
    /\ Atoi(c.fileId).err = "nil"
    /\ c.fileId \notin DOMAIN files[c.tblName]

\* C20: an Update or Delete with an unparsable id fails, a Delete of an integer
\* id without a file fails with the not-found error, and no step of such a
\* call, from the call to the return, changes the table's record files or its
\* tag index.
C20_RejectedMutationChangesNothing ==
    [][\A g \in DOMAIN returned :
         /\ (pc[g] = "idle" /\ pc'[g] # "idle"
               /\ (Unparsable(call'[g]) \/ Missing(call'[g])))
              => UNCHANGED <<files, tagIndexes>>
         /\ (pc[g] = "locked" /\ pc'[g] # "locked"
               /\ (Unparsable(call[g]) \/ Missing(call[g])))
              => /\ pc'[g] = "idle"
                 /\ returned'[g].err =
                        IF Missing(call[g]) THEN "no such file" ELSE "invalid syntax"
                 /\ UNCHANGED <<files, tagIndexes>>
         /\ (pc[g] = "idle" /\ pc'[g] = "idle" /\ returned'[g] # returned[g]
               /\ returned'[g].op = "Delete")
              => /\ Unparsable(returned'[g])
                 /\ returned'[g].err = "invalid syntax"
                 /\ UNCHANGED <<files, tagIndexes>>]_vars

\* A Delete of an id without a file has failed on a table that holds a record
\* and an index, and an Update with an unparsable id likewise.
C20_Witness ==
    \E g \in DOMAIN returned :
        LET r == returned[g]
        IN  /\ \/ r.op = "Delete" /\ r.err = "no such file"
               \/ r.op = "Update" /\ r.err = "invalid syntax"
            /\ DOMAIN files[r.tblName] # {}
            /\ DOMAIN tagIndexes[r.tblName] # {}

\* The mutex of table t is free: no writer holds or awaits it, no reader holds
\* it or queues for it.
Free(t) == mutexes[rwLocks[t]] = NewRWMutex

\* C21: whenever no call is under way on a table its lock is free, and every
\* call that has started returns.
C21_LocksReleasedAndCallsReturn ==
    /\ [](\A t \in DOMAIN rwLocks :
            (\A g \in Goroutines : ~InFlight(g, t)) => Free(t))
    /\ \A g \in Goroutines : (pc[g] # "idle") ~> (pc[g] = "idle")
====
